---- MODULE Spec2Model ----
(***************************************************************************)
(* Slippa clip-selection engine: clipper.py (find_clips, the silence       *)
(* segmenter, the legacy scorer, the greedy selector) and scorer.py        *)
(* (score_engagement and its four dimension scorers); the cutter's choice  *)
(* of what to cut (cutter.py, cut_clips); and the job pipeline of the web  *)
(* application (web.py: process, batch_process, _process_video).           *)
(*                                                                         *)
(* Numbers.  Python floats are modelled by exact fixed-point integers:     *)
(*   times and durations      whole seconds                                *)
(*   sub-scores               1/10^4   (U4)                                *)
(*   dimension scores         1/10^6   (U6)                                *)
(*   weighted total           1/10^8   (U8)                                *)
(*   every value returned by round(x, 2) or round(x, 3): thousandths (MILLI)*)
(* Weights such as 0.30 are the integer percentage 30, which is what moves *)
(* a value from U4 to U6 and from U6 to U8.  Quotients that are not exact  *)
(* in the unit are truncated (error below one unit).                       *)
(*                                                                         *)
(* Text.  A text is a sequence of tokens; the token SP is the single space *)
(* that " ".join puts between two parts.  The scorer reads a text through  *)
(* its feature view (pattern hit counts, punctuation counts, word count    *)
(* and the TextBlob analysis), see Analyse.                                *)
(***************************************************************************)
EXTENDS Integers, Sequences, FiniteSets, TLC

VARIABLES pc, call, locals, ret, jobs, threads

vars == <<pc, call, locals, ret, jobs, threads>>

(* ------------------------------ bounds -------------------------------- *)

MaxSegs == 2

MaxTime == 2

MaxClipsArg == 2

MaxHits == 6

MaxWordCount == 5

MaxWords == 3
\* Clips handed to cut_clips in one call.
MaxCutClips == 2
\* Jobs the web application is asked to create in one run.
MaxJobs == 2
\* Lines in the text posted to /batch-process.
MaxBatch == 2

(* ------------------------- program constants -------------------------- *)

TARGET_CLIP_DURATION == 45

(* ------------------------- fixed-point units -------------------------- *)

U4 == 10 ^ 4

U6 == 10 ^ 6

U8 == 10 ^ 8

MILLI == 10 ^ 3

(* ------------------------------ helpers ------------------------------- *)

Min(a, b) == IF a <= b THEN a ELSE b

Max(a, b) == IF a >= b THEN a ELSE b

Abs(a) == IF a < 0 THEN 0 - a ELSE a

RECURSIVE SumSeq(_)
SumSeq(s) == IF Len(s) = 0 THEN 0 ELSE Head(s) + SumSeq(Tail(s))

\* Python round(): nearest multiple of unit, ties to the even multiple.
\* num/den is the exact value measured in units; the result counts units.
RoundHalfEven(num, den) ==
    LET q == num \div den
        r == num % den
    IN  IF 2 * r > den THEN q + 1
        ELSE IF 2 * r < den THEN q
        ELSE IF q % 2 = 0 THEN q ELSE q + 1

\* round(x, 2) of a value held in 1/unit; the result is in thousandths.
Round2(x, unit) == 10 * RoundHalfEven(x, unit \div 100)

(* ============================ scorer.py =============================== *)

\* _variance(values): population variance, 0.0 below two values.
\* values are integers in some unit u; the result is in u*u, truncated.
_variance(values) ==
    IF Len(values) < 2 THEN 0
    ELSE LET n == Len(values)
             s == SumSeq(values)
             q == SumSeq([i \in 1..n |-> values[i] * values[i]])
         IN  (n * q - s * s) \div (n * n)

\* _duration_bonus(duration, target = 45.0), in U6.
_duration_bonus(duration) ==
    LET target == 45
        diff == Abs(duration - target)
    IN  Max(0, 10 * U6 - (diff * 10 * U6) \div target)

LabelViral == "Viral"

LabelGreat == "Great"

LabelGood == "Good"

LabelMeh == "Meh"

LabelLegacy == "-"

\* _label_from_score with > for >=.
_label_from_score_strict(score) ==
    IF score > 7 * MILLI THEN LabelViral
    ELSE IF score > 5 * MILLI THEN LabelGreat
    ELSE IF score > 3 * MILLI THEN LabelGood
    ELSE LabelMeh

\* _label_from_score(score), score in thousandths.
_label_from_score(score) ==
    IF score >= 7 * MILLI THEN LabelViral
    ELSE IF score >= 5 * MILLI THEN LabelGreat
    ELSE IF score >= 3 * MILLI THEN LabelGood
    ELSE LabelMeh

\* _empty_score()
\* The empty dict {} (of "breakdown", of a legacy "score_breakdown").
EmptyDict == [k \in {} |-> 0]

_empty_score ==
    [total |-> 0, engagement |-> 0, emotion |-> 0, coherence |-> 0,
     virality |-> 0, label |-> LabelMeh, breakdown |-> EmptyDict]

\* _score_engagement_signals with hook_score and cta_score not capped.
_score_engagement_signals_uncapped(t, duration) ==
    LET density_score ==
            IF duration <= 0 THEN 0
            ELSE IF 2 * t.word_count >= 5 * duration
                 THEN Min(10 * U4, (7 * t.word_count * U4) \div (3 * duration))
                 ELSE Max(0, (2 * t.word_count * U4) \div duration)
    IN  Min(10 * U6,
            t.hook_hits * 2 * U4 * 30
            + Min(10 * U4, (t.question_count * 25 * U4) \div 10) * 20
            + Min(10 * U4, (t.exclamation_count * 15 * U4) \div 10) * 15
            + t.cta_hits * 3 * U4 * 10
            + density_score * 25)

\* _score_engagement_signals(text, text_lower, sentences, duration), in U6.
\* t is the feature view of the text.
_score_engagement_signals(t, duration) ==
    LET hook_hits == t.hook_hits
        cta_hits == t.cta_hits
        question_count == t.question_count
        exclamation_count == t.exclamation_count
        word_count == t.word_count
        \* wps = word_count / duration if duration > 0 else 0
        hook_score == Min(10 * U4, hook_hits * 2 * U4)
        question_score == Min(10 * U4, (question_count * 25 * U4) \div 10)
        exclamation_score == Min(10 * U4, (exclamation_count * 15 * U4) \div 10)
        cta_score == Min(10 * U4, cta_hits * 3 * U4)
        density_score ==
            IF duration <= 0 THEN 0
            ELSE IF 2 * word_count >= 5 * duration   \* wps >= 2.5
                 THEN Min(10 * U4, (7 * word_count * U4) \div (3 * duration))
                 ELSE Max(0, (2 * word_count * U4) \div duration)
        combined == hook_score * 30 + question_score * 20
                    + exclamation_score * 15 + cta_score * 10
                    + density_score * 25
    IN  Min(10 * U6, combined)

\* _score_emotion returning emotion_score without min(10.0, ...).
_score_emotion_unclamped(blob, sentences) ==
    IF Len(sentences) = 0 THEN 0
    ELSE
    LET swing_bonus ==
            IF Len(sentences) > 1
            THEN Min(3 * U6, _variance([i \in 1..Len(sentences) |->
                                           sentences[i].polarity]) * 10 * 100)
            ELSE 0
    IN  Abs(blob.polarity) * 8 * U4 + swing_bonus + blob.subjectivity * 18 * 1000

\* _score_emotion(blob, sentences), in U6.  polarity and subjectivity are
\* hundredths; sentences is a sequence of [polarity, words].
_score_emotion(blob, sentences) ==
    IF Len(sentences) = 0 THEN 0
    ELSE
    LET polarity == blob.polarity
        subjectivity == blob.subjectivity
        intensity == Abs(polarity)
        sentence_polarities == [i \in 1..Len(sentences) |-> sentences[i].polarity]
        swing_bonus ==
            IF Len(sentence_polarities) > 1
            THEN Min(3 * U6, _variance(sentence_polarities) * 10 * 100)
            ELSE 0
        \* subjectivity_score * 0.3 = subjectivity * 6.0 * 0.3
        emotion_score == intensity * 8 * U4 + swing_bonus + subjectivity * 18 * 1000
    IN  Min(10 * U6, emotion_score)

\* _score_coherence(blob, sentences, duration), in U6.
\* blob.long_words / blob.unique_long_words count the words longer than 3.
_score_coherence(blob, sentences) ==
    IF blob.long_words < 5 THEN 5 * U6
    ELSE
    LET n == blob.long_words
        repetition_x12 == (12 * (n - blob.unique_long_words) * U6) \div n
        np_x2 == (2 * blob.noun_phrases * U6) \div Max(1, Len(sentences))
        sent_lengths == [i \in 1..Len(sentences) |-> sentences[i].words]
        ns == Len(sent_lengths)
        s == SumSeq(sent_lengths)
        q == SumSeq([i \in 1..ns |-> sent_lengths[i] * sent_lengths[i]])
        \* length_variance / max(1, avg_len ** 2), in U6
        ratio == IF s * s >= ns * ns
                 THEN ((ns * q - s * s) * U6) \div (s * s)
                 ELSE ((ns * q - s * s) * U6) \div (ns * ns)
        consistency == IF ns > 1 THEN Max(0, U6 - ratio) ELSE 7 * (U6 \div 10)
        coherence_score == repetition_x12 + Min(5 * U6, np_x2) + consistency * 3
    IN  Min(10 * U6, coherence_score)

\* _score_virality with viral_score and story_score not capped.
_score_virality_uncapped(t, sentences) ==
    Min(10 * U6,
        ((t.viral_hits * 18 * U4) \div 10) * 35
        + ((t.story_hits * 25 * U4) \div 10) * 25
        + Min(5 * U4, t.superlative_count * U4) * 15
        + ((Cardinality({i \in 1..Len(sentences) : sentences[i].words <= 8})
            * 4 * U4) \div Max(1, Len(sentences))) * 15
        + Min(3 * U4, (t.number_count * 5 * U4) \div 10) * 10)

\* _score_virality(text_lower, sentences), in U6.
_score_virality(t, sentences) ==
    LET viral_hits == t.viral_hits
        story_hits == t.story_hits
        superlative_count == t.superlative_count
        punchy_sentences ==
            Cardinality({i \in 1..Len(sentences) : sentences[i].words <= 8})
        number_count == t.number_count
        viral_score == Min(10 * U4, (viral_hits * 18 * U4) \div 10)
        story_score == Min(10 * U4, (story_hits * 25 * U4) \div 10)
        superlative_score == Min(5 * U4, superlative_count * U4)
        punch_score == (punchy_sentences * 4 * U4) \div Max(1, Len(sentences))
        number_score == Min(3 * U4, (number_count * 5 * U4) \div 10)
        combined == viral_score * 35 + story_score * 25
                    + superlative_score * 15 + punch_score * 15
                    + number_score * 10
    IN  Min(10 * U6, combined)

\* The guard of score_engagement with "and" for "or".
EmptyInput_Both(t, duration) == t.empty /\ duration <= 0

\* The guard of score_engagement (line 88): not text or duration <= 0.
EmptyInput(t, duration) == t.empty \/ duration <= 0

\* score_engagement with the weights of emotion and coherence exchanged.
score_engagement_swapped(t, duration, segment_count) ==
    IF EmptyInput(t, duration) THEN _empty_score
    ELSE [total |-> Round2(Min(10 * U8,
                               _score_engagement_signals(t, duration) * 30
                               + _score_emotion(t.blob, t.blob.sentences) * 15
                               + _score_coherence(t.blob, t.blob.sentences) * 25
                               + _score_virality(t, t.blob.sentences) * 20
                               + _duration_bonus(duration) * 10), U8),
          engagement |-> Round2(_score_engagement_signals(t, duration), U6),
          emotion |-> Round2(_score_emotion(t.blob, t.blob.sentences), U6),
          coherence |-> Round2(_score_coherence(t.blob, t.blob.sentences), U6),
          virality |-> Round2(_score_virality(t, t.blob.sentences), U6),
          label |-> LabelMeh,
          breakdown |-> [duration_bonus |-> Round2(_duration_bonus(duration), U6)]]

\* score_engagement(text, duration, segment_count).  Values in thousandths.
\* breakdown holds what the extractors reported; it is {} when none ran.
score_engagement(t, duration, segment_count) ==
    IF EmptyInput(t, duration) THEN _empty_score
    ELSE
    LET blob == t.blob
        sentences == blob.sentences
        engagement == _score_engagement_signals(t, duration)
        emotion == _score_emotion(blob, sentences)
        coherence == _score_coherence(blob, sentences)
        virality == _score_virality(t, sentences)
        duration_bonus == _duration_bonus(duration)
        weighted == engagement * 30 + emotion * 25 + coherence * 15
                    + virality * 20 + duration_bonus * 10
        total == Round2(Min(10 * U8, weighted), U8)
        label == _label_from_score(total)
    IN  [total |-> total,
         engagement |-> Round2(engagement, U6),
         emotion |-> Round2(emotion, U6),
         coherence |-> Round2(coherence, U6),
         virality |-> Round2(virality, U6),
         label |-> label,
         breakdown |-> [duration_bonus |-> Round2(duration_bonus, U6)]]

(* --------------------- text and its feature view ---------------------- *)

SP == " "

\* " ".join(parts)
RECURSIVE Join(_)
Join(parts) ==
    IF Len(parts) = 0 THEN <<>>
    ELSE IF Len(parts) = 1 THEN parts[1]
    ELSE parts[1] \o <<SP>> \o Join(Tail(parts))

\* text.split(): the words of a text.
Split(text) == SelectSeq(text, LAMBDA tok : tok # SP)

\* The members of the pattern banks that occur in the vocabulary.
HOOK_PATTERNS == {"secret"}

VIRAL_PATTERNS == {"best"}

STORY_PATTERNS == {"finally"}

CTA_PATTERNS == {"subscribe"}

SUPERLATIVES == {"best", "never"}

\* _count_pattern_hits(text, patterns): every match counts.
_count_pattern_hits(text, patterns) ==
    Cardinality({i \in 1..Len(text) : text[i] \in patterns})

\* Sentiment lexicon of the analyser: word -> <<polarity, subjectivity>>,
\* hundredths.  Polarity lies in [-100, 100], subjectivity in [0, 100].
Lexicon(word) ==
    IF word = "best" THEN <<100, 30>>
    ELSE IF word = "secret" THEN <<-40, 70>>
    ELSE <<0, 0>>

\* TextBlob(text): polarity and subjectivity are the means over the words
\* the lexicon knows; a text without terminator is one sentence, and
\* "blob.sentences or [blob]" makes a text without words one sentence too.
TextBlob(text) ==
    LET words == Split(text)
        known == {i \in 1..Len(words) : Lexicon(words[i]) # <<0, 0>>}
        n == Cardinality(known)
        pol == IF n = 0 THEN 0
               ELSE SumSeq([i \in 1..Len(words) |-> Lexicon(words[i])[1]]) \div n
        sub == IF n = 0 THEN 0
               ELSE SumSeq([i \in 1..Len(words) |-> Lexicon(words[i])[2]]) \div n
    IN  [polarity |-> pol,
         subjectivity |-> sub,
         sentences |-> <<[polarity |-> pol, words |-> Len(words)]>>,
         long_words |-> Len(words),
         unique_long_words |-> Cardinality({words[i] : i \in 1..Len(words)}),
         noun_phrases |-> _count_pattern_hits(words, {"secret"})]

\* What score_engagement reads of a text (scorer.py, the extractor calls).
Analyse(text) ==
    LET words == Split(text)
    IN  [empty |-> Len(text) = 0,
         hook_hits |-> _count_pattern_hits(words, HOOK_PATTERNS),
         cta_hits |-> _count_pattern_hits(words, CTA_PATTERNS),
         question_count |-> 0,
         exclamation_count |-> 0,
         word_count |-> Len(words),
         viral_hits |-> _count_pattern_hits(words, VIRAL_PATTERNS),
         story_hits |-> _count_pattern_hits(words, STORY_PATTERNS),
         superlative_count |-> _count_pattern_hits(words, SUPERLATIVES),
         number_count |-> 0,
         blob |-> TextBlob(text)]

(* ============================ clipper.py ============================== *)

\* _score_clip_legacy with its result capped at 10.0.
_score_clip_legacy_clamped(text, duration, segment_count) ==
    IF duration <= 0 THEN 0
    ELSE LET bonus_num == Max(0, TARGET_CLIP_DURATION
                                 - Abs(duration - TARGET_CLIP_DURATION))
             num == 4 * TARGET_CLIP_DURATION * Len(SelectSeq(text, LAMBDA tok : tok # " "))
                    + 3 * TARGET_CLIP_DURATION * segment_count
                    + 2 * duration * bonus_num
         IN  Min(10 * MILLI,
                 RoundHalfEven(MILLI * num, 2 * TARGET_CLIP_DURATION * duration))

\* _score_clip_legacy(text, duration, segment_count), in thousandths.
\* score = (2*wc + 1.5*n) / d + max(0, 1 - |d - 45| / 45)
\*       = (180*wc + 135*n + 2*d*max(0, 45 - |d - 45|)) / (90*d)
_score_clip_legacy(text, duration, segment_count) ==
    LET word_count == Len(Split(text))
    IN  IF duration <= 0 THEN 0
        ELSE
        LET duration_diff == Abs(duration - TARGET_CLIP_DURATION)
            bonus_num == Max(0, TARGET_CLIP_DURATION - duration_diff)
            num == 4 * TARGET_CLIP_DURATION * word_count
                   + 3 * TARGET_CLIP_DURATION * segment_count
                   + 2 * duration * bonus_num
            den == 2 * TARGET_CLIP_DURATION * duration
        IN  RoundHalfEven(MILLI * num, den)

\* The overlap test asking only whether the candidate starts inside chosen.
Overlaps_StartInside(candidate, chosen) ==
    candidate.start < chosen.end /\ candidate.start >= chosen.start

\* The overlap test on closed intervals: spans that touch overlap.
Overlaps_Closed(candidate, chosen) ==
    candidate.start <= chosen.end /\ candidate.end >= chosen.start

\* The overlap test of _remove_overlaps (line 235).
Overlaps(candidate, chosen) ==
    candidate.start < chosen.end /\ candidate.end > chosen.start

\* The loop of _remove_overlaps leaving at the first overlapping candidate
\* instead of passing over it.
RECURSIVE RemoveFrom_StopAtOverlap(_, _, _, _)
RemoveFrom_StopAtOverlap(candidates, k, max_clips, selected) ==
    IF k > Len(candidates) THEN selected
    ELSE IF Len(selected) >= max_clips THEN selected
    ELSE IF \E n \in 1..Len(selected) :
                /\ candidates[k].start < selected[n].end
                /\ candidates[k].end > selected[n].start
         THEN selected
         ELSE RemoveFrom_StopAtOverlap(candidates, k + 1, max_clips,
                                       Append(selected, candidates[k]))

\* _remove_overlaps(candidates, max_clips): the loop from position k on,
\* selected being the clips accepted so far.
RECURSIVE RemoveFrom(_, _, _, _)
RemoveFrom(candidates, k, max_clips, selected) ==
    IF k > Len(candidates) THEN selected
    ELSE IF Len(selected) >= max_clips THEN selected
    ELSE LET candidate == candidates[k]
             overlaps == \E n \in 1..Len(selected) : Overlaps(candidate, selected[n])
         IN  RemoveFrom(candidates, k + 1, max_clips,
                        IF ~overlaps THEN Append(selected, candidate) ELSE selected)

\* _remove_overlaps stopping one clip short of max_clips.
_remove_overlaps_short(candidates, max_clips) ==
    RemoveFrom(candidates, 1, max_clips - 1, <<>>)

\* _remove_overlaps stopping at len(selected) > max_clips.
_remove_overlaps_late(candidates, max_clips) ==
    RemoveFrom(candidates, 1, max_clips + 1, <<>>)

_remove_overlaps(candidates, max_clips) ==
    RemoveFrom(candidates, 1, max_clips, <<>>)

\* The loop of _build_smart_segments splitting at gap >= gap_threshold.
RECURSIVE WalkWords_AtThreshold(_, _, _, _, _, _)
WalkWords_AtThreshold(all_words, k, gap_threshold, current_start, current_end, sub_segments) ==
    IF k > Len(all_words)
    THEN Append(sub_segments, [start |-> current_start, end |-> current_end])
    ELSE IF all_words[k].start - current_end >= gap_threshold
         THEN WalkWords_AtThreshold(all_words, k + 1, gap_threshold,
                                    all_words[k].start, all_words[k].end,
                                    Append(sub_segments, [start |-> current_start,
                                                          end |-> current_end]))
         ELSE WalkWords_AtThreshold(all_words, k + 1, gap_threshold,
                                    current_start, all_words[k].end, sub_segments)

\* The loop of _build_smart_segments opening a new sub-range at the end of
\* the one it closes instead of at word["start"].
RECURSIVE WalkWords_FromEnd(_, _, _, _, _, _)
WalkWords_FromEnd(all_words, k, gap_threshold, current_start, current_end, sub_segments) ==
    IF k > Len(all_words)
    THEN Append(sub_segments, [start |-> current_start, end |-> current_end])
    ELSE IF all_words[k].start - current_end > gap_threshold
         THEN WalkWords_FromEnd(all_words, k + 1, gap_threshold,
                                current_end, all_words[k].end,
                                Append(sub_segments, [start |-> current_start,
                                                      end |-> current_end]))
         ELSE WalkWords_FromEnd(all_words, k + 1, gap_threshold,
                                current_start, all_words[k].end, sub_segments)

\* _build_smart_segments: the loop over all_words[1:], from word k on.
RECURSIVE WalkWords(_, _, _, _, _, _)
WalkWords(all_words, k, gap_threshold, current_start, current_end, sub_segments) ==
    IF k > Len(all_words)
    THEN Append(sub_segments, [start |-> current_start, end |-> current_end])
    ELSE LET word == all_words[k]
             gap == word.start - current_end
         IN  IF gap > gap_threshold
             THEN WalkWords(all_words, k + 1, gap_threshold, word.start, word.end,
                            Append(sub_segments,
                                   [start |-> current_start, end |-> current_end]))
             ELSE WalkWords(all_words, k + 1, gap_threshold, current_start, word.end,
                            sub_segments)

RECURSIVE AllWords(_)
AllWords(segs) ==
    IF Len(segs) = 0 THEN <<>> ELSE Head(segs).words \o AllWords(Tail(segs))

\* _build_smart_segments walking all_words[2:] instead of all_words[1:].
_build_smart_segments_skip(segs, gap_threshold) ==
    IF Len(AllWords(segs)) = 0
    THEN <<[start |-> segs[1].start, end |-> segs[Len(segs)].end]>>
    ELSE WalkWords(AllWords(segs), 3, gap_threshold,
                   AllWords(segs)[1].start, AllWords(segs)[1].end, <<>>)

\* _build_smart_segments whose fallback spans the last segment only.
_build_smart_segments_last(segs, gap_threshold) ==
    IF Len(AllWords(segs)) = 0
    THEN <<[start |-> segs[Len(segs)].start, end |-> segs[Len(segs)].end]>>
    ELSE WalkWords(AllWords(segs), 2, gap_threshold,
                   AllWords(segs)[1].start, AllWords(segs)[1].end, <<>>)

\* _build_smart_segments(segments, gap_threshold)
_build_smart_segments(segs, gap_threshold) ==
    LET all_words == AllWords(segs)
    IN  IF Len(all_words) = 0
        THEN <<[start |-> segs[1].start, end |-> segs[Len(segs)].end]>>
        ELSE WalkWords(all_words, 2, gap_threshold,
                       all_words[1].start, all_words[1].end, <<>>)

\* The sort of the candidates without reverse = True: lowest score first.
RECURSIVE InsertByScore_Ascending(_, _)
InsertByScore_Ascending(sorted, c) ==
    IF Len(sorted) = 0 THEN <<c>>
    ELSE IF c.score < Head(sorted).score THEN <<c>> \o sorted
    ELSE <<Head(sorted)>> \o InsertByScore_Ascending(Tail(sorted), c)

\* A descending sort that is not stable: a candidate goes in front of the
\* candidates of equal score generated before it.
RECURSIVE InsertByScore_Unstable(_, _)
InsertByScore_Unstable(sorted, c) ==
    IF Len(sorted) = 0 THEN <<c>>
    ELSE IF c.score >= Head(sorted).score THEN <<c>> \o sorted
    ELSE <<Head(sorted)>> \o InsertByScore_Unstable(Tail(sorted), c)

\* list.sort(key = score, reverse = True): stable, highest score first.
RECURSIVE InsertByScore(_, _)
InsertByScore(sorted, c) ==
    IF Len(sorted) = 0 THEN <<c>>
    ELSE IF c.score > Head(sorted).score THEN <<c>> \o sorted
    ELSE <<Head(sorted)>> \o InsertByScore(Tail(sorted), c)

\* find_clips without its Step 2: the candidates stay in generation order.
SortByScore_Skipped(cs) == cs

RECURSIVE SortByScore(_)
SortByScore(cs) ==
    IF Len(cs) = 0 THEN <<>>
    ELSE InsertByScore(SortByScore(SubSeq(cs, 1, Len(cs) - 1)), cs[Len(cs)])

\* list.sort(key = start): stable, smallest start first.
RECURSIVE InsertByStart(_, _)
InsertByStart(sorted, c) ==
    IF Len(sorted) = 0 THEN <<c>>
    ELSE IF c.start < Head(sorted).start THEN <<c>> \o sorted
    ELSE <<Head(sorted)>> \o InsertByStart(Tail(sorted), c)

RECURSIVE SortByStart(_)
SortByStart(cs) ==
    IF Len(cs) = 0 THEN <<>>
    ELSE InsertByStart(SortByStart(SubSeq(cs, 1, Len(cs) - 1)), cs[Len(cs)])

\* dict.pop(key, None) and dict[key] = value
Pop(d, key) == [f \in (DOMAIN d) \ {key} |-> d[f]]

Assign(d, key, value) ==
    [f \in (DOMAIN d) \cup {key} |-> IF f = key THEN value ELSE d[f]]

\* One candidate of find_clips (lines 92-127); i and j count from 1.
Candidate(segs, i, j, smart_scoring) ==
    LET clip_start == segs[i].start
        clip_end == segs[j].end
        duration == clip_end - clip_start
        combined_text == Join([k \in 1..(j - i + 1) |-> segs[i + k - 1].text])
        seg_count == j - i + 1
    IN  IF smart_scoring
        THEN LET score_result == score_engagement(Analyse(combined_text),
                                                  duration, seg_count)
             IN  [start |-> clip_start, end |-> clip_end, text |-> combined_text,
                  score |-> score_result.total,
                  label |-> score_result.label,
                  score_breakdown |->
                      [engagement |-> score_result.engagement,
                       emotion |-> score_result.emotion,
                       coherence |-> score_result.coherence,
                       virality |-> score_result.virality],
                  segment_count |-> seg_count,
                  _seg_range |-> <<i, j>>]
        ELSE [start |-> clip_start, end |-> clip_end, text |-> combined_text,
              score |-> _score_clip_legacy(combined_text, duration, seg_count),
              label |-> LabelLegacy,
              score_breakdown |-> EmptyDict,
              segment_count |-> seg_count,
              _seg_range |-> <<i, j>>]

\* The inner loop of find_clips without the break at max_duration.
RECURSIVE Window_NoBreak(_, _, _, _, _, _)
Window_NoBreak(segs, i, j, min_duration, max_duration, smart_scoring) ==
    IF j > Len(segs) THEN <<>>
    ELSE (IF segs[j].end - segs[i].start >= min_duration
          THEN <<Candidate(segs, i, j, smart_scoring)>>
          ELSE <<>>)
         \o Window_NoBreak(segs, i, j + 1, min_duration, max_duration, smart_scoring)

\* The inner loop of find_clips passing over a window longer than
\* max_duration and going on to the next j instead of leaving the loop.
RECURSIVE Window_Continue(_, _, _, _, _, _)
Window_Continue(segs, i, j, min_duration, max_duration, smart_scoring) ==
    IF j > Len(segs) THEN <<>>
    ELSE (IF /\ segs[j].end - segs[i].start <= max_duration
             /\ segs[j].end - segs[i].start >= min_duration
          THEN <<Candidate(segs, i, j, smart_scoring)>>
          ELSE <<>>)
         \o Window_Continue(segs, i, j + 1, min_duration, max_duration, smart_scoring)

\* The inner loop of find_clips (lines 81-127) for start index i, from j on.
RECURSIVE Window(_, _, _, _, _, _)
Window(segs, i, j, min_duration, max_duration, smart_scoring) ==
    IF j > Len(segs) THEN <<>>
    ELSE LET duration == segs[j].end - segs[i].start
         IN  IF duration > max_duration THEN <<>>
             ELSE (IF duration >= min_duration
                   THEN <<Candidate(segs, i, j, smart_scoring)>>
                   ELSE <<>>)
                  \o Window(segs, i, j + 1, min_duration, max_duration, smart_scoring)

\* The outer loop of find_clips (line 76), from start index i on.
RECURSIVE Generate(_, _, _, _, _)
Generate(segs, i, min_duration, max_duration, smart_scoring) ==
    IF i > Len(segs) THEN <<>>
    ELSE Window(segs, i, i, min_duration, max_duration, smart_scoring)
         \o Generate(segs, i + 1, min_duration, max_duration, smart_scoring)

\* Steps 4 and 5 of find_clips with the clean-up inside `if smart_edit`.
Finish_PopWhenEdited(segs, clip, smart_edit, gap_threshold) ==
    IF smart_edit
    THEN Pop(Assign(clip, "sub_segments",
                    _build_smart_segments(SubSeq(segs, clip._seg_range[1],
                                                 clip._seg_range[2]),
                                          gap_threshold)),
             "_seg_range")
    ELSE clip

\* Steps 4 and 5 of find_clips on one selected clip.
Finish(segs, clip, smart_edit, gap_threshold) ==
    LET seg_range == clip._seg_range
        clip_segments == SubSeq(segs, seg_range[1], seg_range[2])
        edited == IF smart_edit
                  THEN Assign(clip, "sub_segments",
                              _build_smart_segments(clip_segments, gap_threshold))
                  ELSE clip
    IN  Pop(edited, "_seg_range")

(* ----------------------------- inputs --------------------------------- *)

Times == 0..MaxTime

Texts == {<<>>, <<"secret", "best">>}

\* Word timestamps of a segment: none for a segment without text, else
\* one word at each end of it.
WordsOf(start, end, text) ==
    IF Len(text) = 0 THEN <<>>
    ELSE <<[start |-> start, end |-> start], [start |-> end, end |-> end]>>

SegmentShapes == [start : Times, end : Times, text : Texts]

\* Transcripts: at most MaxSegs segments, ordered by start, time counted
\* from the start of the first one (find_clips compares differences only).
Transcripts ==
    UNION {{s \in [1..n -> SegmentShapes] :
                /\ n > 0 => s[1].start = 0
                /\ \A k \in 1..(n - 1) : s[k].start <= s[k + 1].start}
           : n \in 0..MaxSegs}

\* A transcript whose last segment is a single instant inside the first:
\* segments [0,2], [1,3] and [1,1].
PointInside ==
    <<[start |-> 0, end |-> 2, text |-> <<"secret", "best">>],
      [start |-> 1, end |-> 3, text |-> <<>>],
      [start |-> 1, end |-> 1, text |-> <<>>]>>

WithWords(shapes) ==
    [k \in 1..Len(shapes) |->
        [start |-> shapes[k].start, end |-> shapes[k].end, text |-> shapes[k].text,
         words |-> WordsOf(shapes[k].start, shapes[k].end, shapes[k].text)]]

MinDurations == {0, 1}

MaxDurations == {1, MaxTime}

GapThresholds == {0, 1}

\* max_clips: none, one, or as many as the bound allows.
MaxClipsArgs == {0, 1, MaxClipsArg}

\* The calls of find_clips.
FindClipsCall(c) ==
    \E shapes \in Transcripts \cup {PointInside}, min_duration \in MinDurations,
       max_duration \in MaxDurations, max_clips \in MaxClipsArgs,
       smart_edit \in BOOLEAN, smart_scoring \in BOOLEAN :
        c = [fn |-> "find_clips", segments |-> WithWords(shapes),
             min_duration |-> min_duration, max_duration |-> max_duration,
             max_clips |-> max_clips, smart_edit |-> smart_edit,
             gap_threshold |-> 1, smart_scoring |-> smart_scoring]

\* Word timestamps in time order: no word starts or ends before the word
\* in front of it does, and every word has end >= start.
WordShapes == {w \in [start : Times, end : Times] : w.start <= w.end}

WordLists ==
    UNION {{ws \in [1..n -> WordShapes] :
                \A k \in 1..(n - 1) : /\ ws[k].start <= ws[k + 1].start
                                      /\ ws[k].end <= ws[k + 1].end}
           : n \in 0..MaxWords}

\* Up to two segments that carry the words ws, the first k in the first.
SegmentsWith(ws, n, k, a, b) ==
    IF n = 0 THEN <<>>
    ELSE IF n = 1
    THEN <<[start |-> a, end |-> b, text |-> <<>>, words |-> ws]>>
    ELSE <<[start |-> a, end |-> b, text |-> <<>>, words |-> SubSeq(ws, 1, k)],
           [start |-> b, end |-> b, text |-> <<>>,
            words |-> SubSeq(ws, k + 1, Len(ws))]>>

\* The calls of _build_smart_segments.
BuildSmartSegmentsCall(c) ==
    \E ws \in WordLists, gap_threshold \in GapThresholds, n \in 0..2,
       k \in 0..MaxWords, a \in Times, b \in Times :
        /\ a <= b
        /\ k <= Len(ws)
        /\ n = 1 => k = Len(ws)
        /\ n = 0 => (Len(ws) = 0 /\ a = 0 /\ b = 0)
        /\ c = [fn |-> "_build_smart_segments",
                segments |-> SegmentsWith(ws, n, k, a, b),
                gap_threshold |-> gap_threshold]

\* The call of the worked example, times in fifths of a second: words
\* [0,1], [1.2,2], [5,6] and gap_threshold 0.8.
ScenarioCall(c) ==
    c = [fn |-> "_build_smart_segments",
         segments |-> <<[start |-> 0, end |-> 30, text |-> <<>>,
                         words |-> <<[start |-> 0, end |-> 5],
                                     [start |-> 6, end |-> 10],
                                     [start |-> 25, end |-> 30]>>]>>,
         gap_threshold |-> 4]

\* Feature views for score_engagement: every count is 0 or saturating.
HitCounts == {0, MaxHits}

Durations == {-1, 0, 1, 45, 100}

\* Analyses TextBlob can return: polarity in [-100, 100], subjectivity in
\* [0, 100], at least one sentence, unique_long_words <= long_words.
Sentiments ==
    {[polarity |-> 0, subjectivity |-> 0, sentence_polarities |-> <<0>>],
     [polarity |-> -100, subjectivity |-> 100, sentence_polarities |-> <<-100>>],
     [polarity |-> 75, subjectivity |-> 100, sentence_polarities |-> <<100, -100>>]}

Wordings ==
    {[long_words |-> 0, unique_long_words |-> 0, noun_phrases |-> 0,
      sentence_lengths |-> <<9>>],
     [long_words |-> 5, unique_long_words |-> 5, noun_phrases |-> 0,
      sentence_lengths |-> <<0, 10>>],
     [long_words |-> 10, unique_long_words |-> 1, noun_phrases |-> MaxHits,
      sentence_lengths |-> <<5, 5>>]}

Blob(sentiment, wording) ==
    LET ns == Max(Len(sentiment.sentence_polarities), Len(wording.sentence_lengths))
        At(s, i) == IF i <= Len(s) THEN s[i] ELSE s[Len(s)]
    IN  [polarity |-> sentiment.polarity,
         subjectivity |-> sentiment.subjectivity,
         sentences |-> [i \in 1..ns |->
                           [polarity |-> At(sentiment.sentence_polarities, i),
                            words |-> At(wording.sentence_lengths, i)]],
         long_words |-> wording.long_words,
         unique_long_words |-> wording.unique_long_words,
         noun_phrases |-> wording.noun_phrases]

\* The calls of score_engagement, the text given by its feature view.
ScoreEngagementCall(c) ==
    \E empty \in BOOLEAN, duration \in Durations,
       hook_hits \in HitCounts, cta_hits \in HitCounts,
       question_count \in HitCounts, exclamation_count \in HitCounts,
       word_count \in {0, MaxWordCount},
       viral_hits \in HitCounts, story_hits \in HitCounts,
       superlative_count \in HitCounts, number_count \in HitCounts,
       sentiment \in Sentiments, wording \in Wordings :
        c = [fn |-> "score_engagement",
             text |-> [empty |-> empty,
                       hook_hits |-> hook_hits, cta_hits |-> cta_hits,
                       question_count |-> question_count,
                       exclamation_count |-> exclamation_count,
                       word_count |-> word_count,
                       viral_hits |-> viral_hits, story_hits |-> story_hits,
                       superlative_count |-> superlative_count,
                       number_count |-> number_count,
                       blob |-> Blob(sentiment, wording)],
             duration |-> duration, segment_count |-> 1]

\* The calls of _label_from_score: totals of two decimals, 0.00 to 10.00.
LabelFromScoreCall(c) ==
    \E k \in 0..MILLI : c = [fn |-> "_label_from_score", score |-> 10 * k]

(* ------------------------------ cutter.py ----------------------------- *)

\* formats_to_produce (lines 45-49).
FormatsToProduce(output_format) ==
    IF output_format = "both" THEN <<"horizontal", "vertical">>
    ELSE <<output_format>>

\* The output file of clip i in format fmt (lines 53-55).
OutputPath(i, fmt) ==
    [clip |-> i, suffix |-> IF fmt = "vertical" THEN "_vertical" ELSE ""]

\* Line 57: clip.get("sub_segments") if smart_edit else None.  None is held
\* as the empty list: line 59 treats the two alike.
SubSegmentsUsed(clip, smart_edit) ==
    IF smart_edit /\ "sub_segments" \in DOMAIN clip THEN clip.sub_segments
    ELSE <<>>

\* The test of line 59 with "more than none" in place of "more than one".
UseSmartCut_Any(sub_segments) == Len(sub_segments) > 0

\* The test of line 59: sub_segments and len(sub_segments) > 1.
UseSmartCut(sub_segments) == Len(sub_segments) > 0 /\ Len(sub_segments) > 1

\* One ffmpeg cut: -ss start -t duration.
FfmpegCut(start, end) == [ss |-> start, t |-> end - start]

\* _smart_cut (lines 142-161): one cut per sub-segment, then the concat.
_smart_cut(sub_segments, fmt, i) ==
    [mode |-> "smart", clip |-> i, fmt |-> fmt,
     cuts |-> [k \in 1..Len(sub_segments) |->
                  FfmpegCut(sub_segments[k].start, sub_segments[k].end)]]

\* _simple_cut (lines 94-108): one continuous cut.
_simple_cut(start, duration, fmt, i) ==
    [mode |-> "simple", clip |-> i, fmt |-> fmt,
     cuts |-> <<[ss |-> start, t |-> duration]>>]

\* The body of the loops of cut_clips for clip i and format fmt
\* (lines 57-66).
CutOne(clip, smart_edit, fmt, i) ==
    IF UseSmartCut(SubSegmentsUsed(clip, smart_edit))
    THEN _smart_cut(SubSegmentsUsed(clip, smart_edit), fmt, i)
    ELSE _simple_cut(clip.start, clip.end - clip.start, fmt, i)

\* The cuts of the two loops of lines 51-52, in their order.
CutAll(clips, smart_edit, formats) ==
    [n \in 1..(Len(clips) * Len(formats)) |->
        CutOne(clips[((n - 1) \div Len(formats)) + 1], smart_edit,
               formats[((n - 1) % Len(formats)) + 1],
               ((n - 1) \div Len(formats)) + 1)]

\* The clips handed to cut_clips: the span [1, MaxTime] without
\* sub_segments, with none, with one covering the clip, with one narrower
\* than the clip, and with two.
CutterClips ==
    LET span == [start |-> 1, end |-> MaxTime]
    IN {span} \cup
       {Assign(span, "sub_segments", subs) :
           subs \in {<<>>,
                     <<[start |-> 1, end |-> MaxTime]>>,
                     <<[start |-> MaxTime, end |-> MaxTime]>>,
                     <<[start |-> 1, end |-> 1],
                       [start |-> MaxTime, end |-> MaxTime]>>}}

OutputFormats == {"horizontal", "vertical", "both"}

\* The calls of cut_clips.
CutClipsCall(c) ==
    \E n \in 0..MaxCutClips :
    \E clips \in [1..n -> CutterClips] :
    \E smart_edit \in BOOLEAN :
    \E output_format \in OutputFormats :
        c = [fn |-> "cut_clips", clips |-> clips, smart_edit |-> smart_edit,
             output_format |-> output_format]

(* --------------------------- specification ---------------------------- *)

None == [fn |-> "none"]

\* A caller has made one call; call holds the function and its arguments.
Init ==
    /\ pc = "called"
    /\ \/ FindClipsCall(call)
       \/ BuildSmartSegmentsCall(call)
       \/ ScenarioCall(call)
       \/ ScoreEngagementCall(call)
       \/ LabelFromScoreCall(call)
       \/ CutClipsCall(call)
    /\ locals = None
    /\ ret = None
    /\ jobs = <<>>
    /\ threads = <<>>

\* find_clips reading segments[0] ahead of its guard: IndexError on [].
FindClips_IndexFirst ==
    /\ pc = "called"
    /\ call.fn = "find_clips"
    /\ \/ /\ Len(call.segments) = 0
          /\ locals' = [generated |-> <<>>, candidates |-> <<>>, selected |-> <<>>]
          /\ ret' = [raised |-> "IndexError"]
          /\ pc' = "raised"
       \/ /\ Len(call.segments) > 0
          /\ \E generated \in {Generate(call.segments, 1, call.min_duration,
                                        call.max_duration, call.smart_scoring)} :
             \E candidates \in {SortByScore(generated)} :
             \E selected \in {_remove_overlaps(candidates, call.max_clips)} :
             \E finished \in {[n \in 1..Len(selected) |->
                                  Finish(call.segments, selected[n],
                                         call.smart_edit, call.gap_threshold)]} :
                /\ locals' = [generated |-> generated, candidates |-> candidates,
                              selected |-> selected]
                /\ ret' = SortByStart(finished)
                /\ pc' = "returned"
    /\ UNCHANGED <<call, jobs, threads>>

\* find_clips whose clean-up loop also pops the words of the caller's
\* segments.
FindClips_PopsWords ==
    /\ pc = "called"
    /\ call.fn = "find_clips"
    /\ \/ /\ Len(call.segments) = 0
          /\ locals' = [generated |-> <<>>, candidates |-> <<>>, selected |-> <<>>]
          /\ ret' = <<>>
       \/ /\ Len(call.segments) > 0
          /\ \E generated \in {Generate(call.segments, 1, call.min_duration,
                                        call.max_duration, call.smart_scoring)} :
             \E candidates \in {SortByScore(generated)} :
             \E selected \in {_remove_overlaps(candidates, call.max_clips)} :
             \E finished \in {[n \in 1..Len(selected) |->
                                  Finish(call.segments, selected[n],
                                         call.smart_edit, call.gap_threshold)]} :
                /\ locals' = [generated |-> generated, candidates |-> candidates,
                              selected |-> selected]
                /\ ret' = SortByStart(finished)
    /\ pc' = "returned"
    /\ call' = [call EXCEPT !.segments =
                    [k \in 1..Len(call.segments) |-> Pop(call.segments[k], "words")]]
    /\ UNCHANGED <<jobs, threads>>

\* find_clips (lines 70-151) runs and returns its list.
FindClips ==
    /\ pc = "called"
    /\ call.fn = "find_clips"
    /\ \/ /\ Len(call.segments) = 0
          /\ locals' = [generated |-> <<>>, candidates |-> <<>>, selected |-> <<>>]
          /\ ret' = <<>>
       \/ /\ Len(call.segments) > 0
          \* Step 1, Step 2, Step 3, Step 4 and clean-up, final sort
          /\ \E generated \in {Generate(call.segments, 1, call.min_duration,
                                        call.max_duration, call.smart_scoring)} :
             \E candidates \in {SortByScore(generated)} :
             \E selected \in {_remove_overlaps(candidates, call.max_clips)} :
             \E finished \in {[n \in 1..Len(selected) |->
                                  Finish(call.segments, selected[n],
                                         call.smart_edit, call.gap_threshold)]} :
                /\ locals' = [generated |-> generated, candidates |-> candidates,
                              selected |-> selected]
                /\ ret' = SortByStart(finished)
    /\ pc' = "returned"
    /\ UNCHANGED <<call, jobs, threads>>

\* score_engagement runs and returns its dict; locals holds the dimension
\* scores (lines 96-110, in U6) when the guard of line 88 let it go on.
ScoreEngagement ==
    /\ pc = "called"
    /\ call.fn = "score_engagement"
    /\ ret' = score_engagement(call.text, call.duration, call.segment_count)
    /\ locals' =
          IF EmptyInput(call.text, call.duration) THEN None
          ELSE [engagement |-> _score_engagement_signals(call.text, call.duration),
                emotion |-> _score_emotion(call.text.blob, call.text.blob.sentences),
                coherence |-> _score_coherence(call.text.blob,
                                               call.text.blob.sentences),
                virality |-> _score_virality(call.text, call.text.blob.sentences),
                duration_bonus |-> _duration_bonus(call.duration)]
    /\ pc' = "returned"
    /\ UNCHANGED <<call, jobs, threads>>

\* _label_from_score runs and returns its label.
LabelFromScore ==
    /\ pc = "called"
    /\ call.fn = "_label_from_score"
    /\ ret' = _label_from_score(call.score)
    /\ pc' = "returned"
    /\ UNCHANGED <<call, locals, jobs, threads>>

\* _build_smart_segments runs and returns its sub-segments; without words
\* and without segments, segments[0] (line 175) raises IndexError.
BuildSmartSegments ==
    /\ pc = "called"
    /\ call.fn = "_build_smart_segments"
    /\ locals' = [all_words |-> AllWords(call.segments)]
    /\ \/ /\ Len(call.segments) = 0
          /\ ret' = [raised |-> "IndexError"]
          /\ pc' = "raised"
       \/ /\ Len(call.segments) > 0
          /\ ret' = _build_smart_segments(call.segments, call.gap_threshold)
          /\ pc' = "returned"
    /\ UNCHANGED <<call, jobs, threads>>

\* cut_clips (lines 40-71) runs: locals holds what it had ffmpeg cut, and
\* it returns the output paths that exist afterwards (lines 68-69), which
\* is for ffmpeg and the file system to decide.
CutClips ==
    /\ pc = "called"
    /\ call.fn = "cut_clips"
    /\ \E done \in {CutAll(call.clips, call.smart_edit,
                           FormatsToProduce(call.output_format))} :
       \E existing \in SUBSET {OutputPath(done[n].clip, done[n].fmt) :
                                  n \in 1..Len(done)} :
          /\ locals' = [cuts |-> done]
          /\ ret' = SelectSeq([n \in 1..Len(done) |->
                                  OutputPath(done[n].clip, done[n].fmt)],
                              LAMBDA path : path \in existing)
    /\ pc' = "returned"
    /\ UNCHANGED <<call, jobs, threads>>

Next ==
    \/ FindClips
    \/ ScoreEngagement
    \/ LabelFromScore
    \/ BuildSmartSegments
    \/ CutClips

Spec == Init /\ [][Next]_vars

(* ------------------------------- web.py ------------------------------- *)
(* jobs is the in-memory job store (line 44), keyed here by the order of   *)
(* creation: a job id is the first eight characters of a fresh uuid4 and   *)
(* is taken to be new each time.  Of a job dict the model keeps status,    *)
(* progress (by its kind), source, error and batch.  threads holds the     *)
(* background threads: the ids a thread was started with, the one it is at *)
(* (k) and its place in _process_video (at).  What a route answers is not  *)
(* kept: a request that is turned down (400) changes nothing.              *)

\* A form field as posted: blank, a URL, a path on disk.
Lines == {" ", "http://a", "a.mp4"}

\* str.strip on a posted field.
Strip(line) == IF line = " " THEN "" ELSE line

\* source.startswith(("http://", "https://", "www.")), line 61.
IsUrl(source) == source = "http://a"

\* The job dict of process (lines 185-193).
StartingJob(source) ==
    [status |-> "starting", progress |-> "Starting...",
     source |-> source, error |-> "None"]

\* The job dict of batch_process (lines 216-225).
QueuedJob(url) ==
    [status |-> "queued", progress |-> "Queued...",
     source |-> url, error |-> "None", batch |-> TRUE]

\* A thread started on ids (lines 195-197 and 229-235): _process_video for
\* each in turn.
Runner(ids) == [ids |-> ids, k |-> 1, at |-> "enter"]

\* A runner that goes through its ids from the last to the first.
Current_Reversed(th) == th.ids[Len(th.ids) + 1 - th.k]

\* The job a thread is processing (line 230: for jid in ids).
Current(th) == th.ids[th.k]

Running(t) == t \in DOMAIN threads /\ threads[t].k <= Len(threads[t].ids)

\* _process_video returns and the runner moves to its next id.
Return(th) == [th EXCEPT !.k = @ + 1, !.at = "enter"]

\* job["status"] = ...; job["progress"] = ...
SetStatus(job, status, progress) ==
    [job EXCEPT !.status = status, !.progress = progress]

\* An except clause that records nothing.
Failed_Silent(job) == job

\* The except clause (lines 120-123).
Failed(job) ==
    [job EXCEPT !.status = "error", !.progress = "Error", !.error = "raised"]

\* The server is up and no request has come in.
WebInit ==
    /\ pc = "serving"
    /\ call = None
    /\ locals = None
    /\ ret = None
    /\ jobs = <<>>
    /\ threads = <<>>

\* POST /process (lines 178-199).
Process ==
    /\ pc = "serving"
    /\ \E posted \in Lines :
       \E source \in {Strip(posted)} :
          \/ /\ source = ""
             /\ UNCHANGED <<jobs, threads>>
          \/ /\ source # ""
             /\ Len(jobs) < MaxJobs
             /\ jobs' = Append(jobs, StartingJob(source))
             /\ threads' = Append(threads, Runner(<<Len(jobs) + 1>>))
    /\ UNCHANGED <<pc, call, locals, ret>>

\* POST /batch-process (lines 202-237).  A text that is not blank has a
\* line that is not blank, so the answer of line 211 is never given.
BatchProcess ==
    /\ pc = "serving"
    /\ \E n \in 0..MaxBatch :
       \E urls_text \in [1..n -> Lines] :
       \E urls \in {SelectSeq([k \in 1..n |-> Strip(urls_text[k])],
                              LAMBDA u : u # "")} :
          \/ /\ Len(urls) = 0
             /\ UNCHANGED <<jobs, threads>>
          \/ /\ Len(urls) > 0
             /\ Len(jobs) + Len(urls) <= MaxJobs
             /\ \E job_ids \in {[k \in 1..Len(urls) |-> Len(jobs) + k]} :
                   /\ jobs' = jobs \o [k \in 1..Len(urls) |-> QueuedJob(urls[k])]
                   /\ threads' = Append(threads, Runner(job_ids))
    /\ UNCHANGED <<pc, call, locals, ret>>

\* _process_video, lines 53-59: the job is looked up, the settings are
\* loaded (load_settings falls back to the defaults when the file cannot be
\* read) and the status becomes downloading.
Enter(t) ==
    /\ Running(t)
    /\ threads[t].at = "enter"
    /\ jobs' = [jobs EXCEPT ![Current(threads[t])] =
                    SetStatus(@, "downloading", "Downloading video...")]
    /\ threads' = [threads EXCEPT ![t].at = "download"]
    /\ UNCHANGED <<pc, call, locals, ret>>

\* Lines 61-72: download_video returns or raises; a path on disk is taken
\* as it is.
Download(t) ==
    /\ Running(t)
    /\ threads[t].at = "download"
    /\ \/ /\ jobs' = [jobs EXCEPT ![Current(threads[t])] =
                          SetStatus(@, "transcribing", "Transcribing with Whisper...")]
          /\ threads' = [threads EXCEPT ![t].at = "transcribe"]
       \/ /\ IsUrl(jobs[Current(threads[t])].source)
          /\ jobs' = [jobs EXCEPT ![Current(threads[t])] = Failed(@)]
          /\ threads' = [threads EXCEPT ![t] = Return(@)]
    /\ UNCHANGED <<pc, call, locals, ret>>

\* Lines 74-79: transcribe_audio returns or raises.
Transcribe(t) ==
    /\ Running(t)
    /\ threads[t].at = "transcribe"
    /\ \/ /\ jobs' = [jobs EXCEPT ![Current(threads[t])] =
                          SetStatus(@, "analyzing",
                                    "Analyzing transcript for best clips...")]
          /\ threads' = [threads EXCEPT ![t].at = "analyze"]
       \/ /\ jobs' = [jobs EXCEPT ![Current(threads[t])] = Failed(@)]
          /\ threads' = [threads EXCEPT ![t] = Return(@)]
    /\ UNCHANGED <<pc, call, locals, ret>>

\* Lines 81-97: find_clips returns no clips, which ends the job (lines
\* 89-93), or returns some; or it raises.
Analyze(t) ==
    /\ Running(t)
    /\ threads[t].at = "analyze"
    /\ \/ /\ jobs' = [jobs EXCEPT ![Current(threads[t])] =
                          SetStatus(@, "done", "No clips found in this video.")]
          /\ threads' = [threads EXCEPT ![t] = Return(@)]
       \/ /\ jobs' = [jobs EXCEPT ![Current(threads[t])] =
                          SetStatus(@, "cutting", "Cutting clips with ffmpeg...")]
          /\ threads' = [threads EXCEPT ![t].at = "cut"]
       \/ /\ jobs' = [jobs EXCEPT ![Current(threads[t])] = Failed(@)]
          /\ threads' = [threads EXCEPT ![t] = Return(@)]
    /\ UNCHANGED <<pc, call, locals, ret>>

\* Lines 99-118: cut_clips returns the paths it saved and clip_info is
\* built from them; or a call raises.
Cut(t) ==
    /\ Running(t)
    /\ threads[t].at = "cut"
    /\ \/ /\ jobs' = [jobs EXCEPT ![Current(threads[t])] =
                          SetStatus(@, "done", "Done!")]
          /\ threads' = [threads EXCEPT ![t] = Return(@)]
       \/ /\ jobs' = [jobs EXCEPT ![Current(threads[t])] = Failed(@)]
          /\ threads' = [threads EXCEPT ![t] = Return(@)]
    /\ UNCHANGED <<pc, call, locals, ret>>

\* One step of thread t.
ProcessVideo(t) ==
    \/ Enter(t)
    \/ Download(t)
    \/ Transcribe(t)
    \/ Analyze(t)
    \/ Cut(t)

WebNext ==
    \/ Process
    \/ BatchProcess
    \/ \E t \in 1..MaxJobs : ProcessVideo(t)

WebSpec == WebInit /\ [][WebNext]_vars

\* Every started thread keeps being scheduled, and the stage it is in
\* returns or raises.
WebFairSpec == WebSpec /\ \A t \in 1..MaxJobs : WF_vars(ProcessVideo(t))

(* ============================== claims ================================ *)

Returned(fn) == pc = "returned" /\ call.fn = fn

\* The strict overlap test of the specification on two spans.
SpansOverlap(a, b) == a.start < b.end /\ a.end > b.start

Indices(seq) == 1..Len(seq)

\* C1: no two distinct clips returned by find_clips overlap under the
\* strict test (a.start < b.end and a.end > b.start).
C1_NoOverlap ==
    Returned("find_clips") =>
        \A a \in Indices(ret), b \in Indices(ret) :
            a # b => ~SpansOverlap(ret[a], ret[b])

\* Two clips were returned and a candidate overlapping one of them was not.
C1_Witness ==
    /\ Returned("find_clips")
    /\ Len(ret) >= 2
    /\ \E k \in Indices(locals.candidates), n \in Indices(ret) :
          SpansOverlap(locals.candidates[k], ret[n])

\* C2: find_clips returns at most max_clips clips (0 included), ordered by
\* start ascending whatever the order of selection by score.
C2_AtMostMaxClipsSorted ==
    Returned("find_clips") =>
        /\ Len(ret) <= call.max_clips
        /\ \A a \in Indices(ret), b \in Indices(ret) :
              a < b => ret[a].start <= ret[b].start

\* The limit was reached with a candidate left over, and the later clip had
\* been selected first.
C2_Witness ==
    /\ Returned("find_clips")
    /\ Len(ret) = call.max_clips
    /\ Len(ret) = 2
    /\ Len(locals.candidates) > 2
    /\ locals.selected[1].start > locals.selected[2].start
    /\ ret[1].start < ret[2].start

\* C3: every generated candidate, and so every returned clip, has
\* min_duration <= end - start <= max_duration, also when the segments' end
\* times are not monotone.
C3_DurationBounds ==
    Returned("find_clips") =>
        /\ \A k \in Indices(locals.generated) :
              LET d == locals.generated[k].end - locals.generated[k].start
              IN  call.min_duration <= d /\ d <= call.max_duration
        /\ \A k \in Indices(ret) :
              LET d == ret[k].end - ret[k].start
              IN  call.min_duration <= d /\ d <= call.max_duration

\* End times fall from the first segment to the second: the window of the
\* first segment stopped at once although segments 1..2 span a valid
\* duration, and a candidate was still generated.
C3_Witness ==
    /\ Returned("find_clips")
    /\ Len(call.segments) = 2
    /\ call.segments[1].end > call.segments[2].end
    /\ call.segments[1].end - call.segments[1].start > call.max_duration
    /\ call.segments[2].end - call.segments[1].start >= call.min_duration
    /\ call.segments[2].end - call.segments[1].start <= call.max_duration
    /\ Len(locals.generated) >= 1

\* C4: find_clips on an empty segment sequence returns an empty list and
\* raises nothing, whatever the other parameters.
C4_EmptySegments ==
    (call.fn = "find_clips" /\ pc # "called" /\ Len(call.segments) = 0) =>
        /\ pc = "returned"
        /\ Len(ret) = 0

\* The empty transcript was given with smart_edit and smart_scoring on.
C4_Witness ==
    /\ Returned("find_clips")
    /\ Len(call.segments) = 0
    /\ call.smart_edit
    /\ call.smart_scoring
    /\ call.max_clips > 0
    /\ Len(ret) = 0

InScoreRange(x) == 0 <= x /\ x <= 10 * MILLI

\* C5: engagement, emotion, coherence, virality and total returned by
\* score_engagement lie in [0, 10], and so does the score of every clip
\* find_clips returns with smart scoring.
C5_ScoresInRange ==
    /\ Returned("score_engagement") =>
          /\ InScoreRange(ret.engagement)
          /\ InScoreRange(ret.emotion)
          /\ InScoreRange(ret.coherence)
          /\ InScoreRange(ret.virality)
          /\ InScoreRange(ret.total)
    /\ (Returned("find_clips") /\ call.smart_scoring) =>
          \A k \in Indices(ret) : InScoreRange(ret[k].score)

\* Saturating signals: emotion and coherence sit on the upper limit.
C5_Witness ==
    /\ Returned("score_engagement")
    /\ ~call.text.empty
    /\ call.duration > 0
    /\ call.text.hook_hits = MaxHits
    /\ ret.emotion = 10 * MILLI
    /\ ret.coherence = 10 * MILLI
    /\ ret.total > 7 * MILLI

\* C6: with empty text or duration <= 0, score_engagement returns total and
\* all four dimensions 0.0 and the label Meh, runs no extractor (its
\* breakdown stays {}), and raises nothing.
C6_EmptyScore ==
    (call.fn = "score_engagement" /\ pc # "called"
     /\ (call.text.empty \/ call.duration <= 0)) =>
        /\ pc = "returned"
        /\ ret.total = 0
        /\ ret.engagement = 0
        /\ ret.emotion = 0
        /\ ret.coherence = 0
        /\ ret.virality = 0
        /\ ret.label = LabelMeh
        /\ DOMAIN ret.breakdown = {}

\* A text full of signals was scored at duration 0.
C6_Witness ==
    /\ Returned("score_engagement")
    /\ ~call.text.empty
    /\ call.duration = 0
    /\ call.text.hook_hits = MaxHits
    /\ call.text.word_count = MaxWordCount
    /\ ret.total = 0

\* The tier the specification gives a total (thousandths).
Tier(total) ==
    CASE total >= 7000 -> LabelViral
      [] total >= 5000 /\ total < 7000 -> LabelGreat
      [] total >= 3000 /\ total < 5000 -> LabelGood
      [] total < 3000 -> LabelMeh

\* C7: the label is the tier of the rounded total, 7.0, 5.0 and 3.0 falling
\* in the higher tier, and score_engagement returns the tier of the total it
\* returns.
C7_LabelIsTier ==
    /\ Returned("_label_from_score") => ret = Tier(call.score)
    /\ Returned("score_engagement") => ret.label = Tier(ret.total)

\* A total exactly on the threshold 7.0 was labelled.
C7_Witness ==
    /\ Returned("_label_from_score")
    /\ call.score = 7 * MILLI
    /\ ret = LabelViral

\* The legacy score of the specification, thousandths:
\* wordDensity*2.0 + segmentDensity*1.5 + bonus*1.0 with densities per
\* second and bonus = max(0, 1 - |duration - 45| / 45), over 90*duration.
LegacyScore(words, duration, segments) ==
    IF duration <= 0 THEN 0
    ELSE RoundHalfEven(
            1000 * (180 * words + 135 * segments
                    + 2 * duration * Max(0, 45 - Abs(duration - 45))),
            90 * duration)

\* C8: with smart_scoring off every returned clip carries the one sentinel
\* label, never a tier label, and its score is the unclamped legacy score of
\* its own text, duration and segment count.
C8_LegacyClips ==
    (Returned("find_clips") /\ ~call.smart_scoring) =>
        \A k \in Indices(ret) :
            /\ ret[k].label = LabelLegacy
            /\ ret[k].label \notin {LabelViral, LabelGreat, LabelGood, LabelMeh}
            /\ ret[k].score = LegacyScore(Len(Split(ret[k].text)),
                                          ret[k].end - ret[k].start,
                                          ret[k].segment_count)

\* A legacy clip scored above 10.
C8_Witness ==
    /\ Returned("find_clips")
    /\ ~call.smart_scoring
    /\ \E k \in Indices(ret) : ret[k].score > 10 * MILLI

\* A word lies within a sub-range.
WordIn(word, range) == range.start <= word.start /\ word.end <= range.end

\* C9: for time-ordered words, the sub-ranges the segmenter returns are
\* time-ordered and pairwise non-overlapping, and every word's interval lies
\* within exactly one of them.
C9_SubRangesPartitionWords ==
    (Returned("_build_smart_segments") /\ Len(locals.all_words) > 0) =>
        /\ \A a \in Indices(ret), b \in Indices(ret) :
              a < b => /\ ret[a].start <= ret[b].start
                       /\ ret[a].end <= ret[b].end
                       /\ ~SpansOverlap(ret[a], ret[b])
        /\ \A w \in Indices(locals.all_words) :
              Cardinality({n \in Indices(ret) :
                              WordIn(locals.all_words[w], ret[n])}) = 1

\* Three words, the first two joined and the third split off; the second
\* is a word of no length at the end of the first.
C9_Witness ==
    /\ Returned("_build_smart_segments")
    /\ Len(locals.all_words) = 3
    /\ Len(ret) = 2
    /\ locals.all_words[2].start = locals.all_words[2].end
    /\ locals.all_words[2].start = locals.all_words[1].end
    /\ WordIn(locals.all_words[2], ret[1])

\* Time is measured in half seconds here: q is the instant q/2, so that the
\* instants strictly between two whole seconds are seen.
Instants == 0..(2 * MaxTime)

CoveredBy(spans, q) ==
    \E n \in Indices(spans) : 2 * spans[n].start <= q /\ q <= 2 * spans[n].end

\* C10 as stated: the sub-ranges cover exactly the time the words cover.
C10_UnionEqual ==
    (Returned("_build_smart_segments") /\ Len(locals.all_words) > 0) =>
        \A q \in Instants : CoveredBy(ret, q) <=> CoveredBy(locals.all_words, q)

\* The instant q lies in the silence between two consecutive words whose gap
\* does not exceed the threshold.
InShortGap(words, q, gap_threshold) ==
    \E k \in 1..(Len(words) - 1) :
        /\ 2 * words[k].end < q
        /\ q < 2 * words[k + 1].start
        /\ words[k + 1].start - words[k].end <= gap_threshold

\* C10 amended: for time-ordered words the sub-ranges cover all the time the
\* words cover, and beyond it only silences between consecutive words that
\* are no longer than the gap threshold.
C10_UnionCoversWords ==
    (Returned("_build_smart_segments") /\ Len(locals.all_words) > 0) =>
        \A q \in Instants :
            /\ CoveredBy(locals.all_words, q) => CoveredBy(ret, q)
            /\ (CoveredBy(ret, q) /\ ~CoveredBy(locals.all_words, q)) =>
                  InShortGap(locals.all_words, q, call.gap_threshold)

\* A silence no longer than the threshold was kept inside a sub-range.
C10_Witness ==
    /\ Returned("_build_smart_segments")
    /\ Len(locals.all_words) >= 2
    /\ \E q \in Instants :
          /\ CoveredBy(ret, q)
          /\ ~CoveredBy(locals.all_words, q)

\* The positions k at which word k starts more than gap_threshold after
\* word k - 1 ends.
Gaps(words, gap_threshold) ==
    {k \in 2..Len(words) : words[k].start - words[k - 1].end > gap_threshold}

\* C11: _build_smart_segments splits between two consecutive words exactly
\* when the next word starts strictly more than gap_threshold after the end
\* of the current sub-range; each new sub-range starts at that word's
\* start, so there is one sub-range more than there are such gaps, and the
\* words [0,1], [1.2,2], [5,6] with threshold 0.8 give [0,2] and [5,6].
C11_SplitRule ==
    (Returned("_build_smart_segments") /\ Len(locals.all_words) > 0) =>
        LET words == locals.all_words
            gaps == Gaps(words, call.gap_threshold)
            First(n) == CHOOSE k \in gaps \cup {1} :
                            Cardinality({g \in gaps : g <= k}) = n - 1
            Last(n) == IF n = Len(ret) THEN Len(words) ELSE First(n + 1) - 1
        IN  /\ Len(ret) = 1 + Cardinality(gaps)
            /\ \A n \in Indices(ret) :
                    /\ ret[n].start = words[First(n)].start
                    /\ ret[n].end = words[Last(n)].end
            /\ ScenarioCall(call) =>
                    ret = <<[start |-> 0, end |-> 10], [start |-> 25, end |-> 30]>>

\* A gap equal to the threshold was not split and a longer one was.
C11_Witness ==
    /\ Returned("_build_smart_segments")
    /\ Len(locals.all_words) = 3
    /\ \E k \in 2..3 : locals.all_words[k].start - locals.all_words[k - 1].end
                            = call.gap_threshold
    /\ Cardinality(Gaps(locals.all_words, call.gap_threshold)) = 1
    /\ Len(ret) = 2

InSeq(x, seq) == \E n \in Indices(seq) : seq[n] = x

\* The clip find_clips returns for a selected candidate has its span, text
\* and score.
SameClip(clip, candidate) ==
    /\ clip.start = candidate.start
    /\ clip.end = candidate.end
    /\ clip.text = candidate.text
    /\ clip.score = candidate.score

\* C12: when there is a candidate and max_clips >= 1 the highest-ranked
\* candidate is in the output of find_clips, which is then not empty; and a
\* candidate overlapping an accepted candidate ranked above it is dropped,
\* however few clips have been accepted.
C12_TopCandidateKept ==
    Returned("find_clips") =>
        LET candidates == locals.candidates
            selected == locals.selected
        IN  /\ (Len(locals.generated) >= 1 /\ call.max_clips >= 1) =>
                    /\ Len(ret) >= 1
                    /\ \A g \in Indices(locals.generated) :
                            selected[1].score >= locals.generated[g].score
                    /\ selected[1] = candidates[1]
                    /\ \E n \in Indices(ret) : SameClip(ret[n], candidates[1])
            /\ \A k \in Indices(candidates) :
                    (\E m \in 1..(k - 1) :
                        /\ InSeq(candidates[m], selected)
                        /\ SpansOverlap(candidates[k], candidates[m]))
                    => ~InSeq(candidates[k], selected)

\* One clip was returned although two were allowed: the second-ranked
\* candidate scored lower than the first and overlapped it.
C12_Witness ==
    /\ Returned("find_clips")
    /\ call.max_clips = 2
    /\ Len(locals.candidates) = 2
    /\ locals.candidates[2].score < locals.candidates[1].score
    /\ SpansOverlap(locals.candidates[2], locals.candidates[1])
    /\ Len(ret) = 1
    /\ SameClip(ret[1], locals.candidates[1])

\* The position of x in a sequence of distinct elements.
Pos(x, seq) == CHOOSE n \in Indices(seq) : seq[n] = x

\* C13: find_clips leaves its arguments as they were, the segment sequence
\* and every segment's start, end, text and words, whatever smart_edit and
\* smart_scoring are; and the selection step takes its clips from the
\* candidate sequence as they are and in the order they have there.
C13_InputUnchanged ==
    [][/\ call' = call
       /\ call.fn = "find_clips" =>
            /\ \A n \in Indices(locals'.selected) :
                    InSeq(locals'.selected[n], locals'.candidates)
            /\ \A n \in Indices(locals'.selected), m \in Indices(locals'.selected) :
                    n < m => Pos(locals'.selected[n], locals'.candidates)
                                < Pos(locals'.selected[m], locals'.candidates)]_vars

\* find_clips has returned edited clips of a transcript that carries words,
\* selected in another order than they are returned in.
C13_Witness ==
    /\ Returned("find_clips")
    /\ call.smart_edit
    /\ Len(ret) = 2
    /\ \A k \in Indices(call.segments) : Len(call.segments[k].words) = 2
    /\ ~SameClip(ret[1], locals.selected[1])
    /\ \A n \in Indices(ret) : Len(ret[n].sub_segments) >= 1

\* A segment of invalid shape: its end lies before its start.
InvalidShape(segs) == \E k \in Indices(segs) : segs[k].end < segs[k].start

\* C14: given a segment with end < start, find_clips fails with an
\* InvalidInput error and returns no clips.
C14_InvalidInputRejected ==
    (call.fn = "find_clips" /\ pc # "called" /\ InvalidShape(call.segments)) =>
        (pc = "raised" /\ ret.raised = "InvalidInput")

ProperSpan(span) == 0 <= span.start /\ span.start < span.end

ValidWords(segs) ==
    \A k \in Indices(segs) : \A w \in Indices(segs[k].words) :
        0 <= segs[k].words[w].start /\ segs[k].words[w].start <= segs[k].words[w].end

\* C15: every candidate, every returned clip and every sub-segment has
\* 0 <= start < end, for every transcript of valid shape (0 <= start <= end
\* for segments and words) and every parameter choice.
C15_ProperSpans ==
    /\ (Returned("find_clips") /\ ~InvalidShape(call.segments)) =>
            /\ \A g \in Indices(locals.generated) : ProperSpan(locals.generated[g])
            /\ \A n \in Indices(ret) :
                    /\ ProperSpan(ret[n])
                    /\ call.smart_edit =>
                            \A m \in Indices(ret[n].sub_segments) :
                                ProperSpan(ret[n].sub_segments[m])
    /\ (Returned("_build_smart_segments") /\ ~InvalidShape(call.segments)
            /\ ValidWords(call.segments)) =>
            \A m \in Indices(ret) : ProperSpan(ret[m])

\* The reference greedy procedure: the positions accepted among the first
\* k candidates, walked in rank order.
RECURSIVE Accepted(_, _, _)
Accepted(candidates, max_clips, k) ==
    IF k = 0 THEN {}
    ELSE LET before == Accepted(candidates, max_clips, k - 1)
         IN  IF /\ Cardinality(before) < max_clips
                /\ \A m \in before : ~SpansOverlap(candidates[k], candidates[m])
             THEN before \cup {k}
             ELSE before

\* The n-th smallest member of a set of positions.
Nth(positions, n) ==
    CHOOSE k \in positions : Cardinality({j \in positions : j <= k}) = n

\* C16: the clips _remove_overlaps selects are those of the reference
\* greedy procedure: walking the candidates in descending score order, a
\* candidate is accepted exactly when fewer than max_clips have been
\* accepted and it overlaps none of them; none is accepted after max_clips
\* acceptances and none is removed once accepted.
C16_GreedyReference ==
    Returned("find_clips") =>
        LET candidates == locals.candidates
            accepted == Accepted(candidates, call.max_clips, Len(candidates))
        IN  /\ \A a \in Indices(candidates), b \in Indices(candidates) :
                    a < b => candidates[a].score >= candidates[b].score
            /\ Len(locals.selected) = Cardinality(accepted)
            /\ \A n \in Indices(locals.selected) :
                    locals.selected[n] = candidates[Nth(accepted, n)]
            /\ \A k \in Indices(candidates) :
                    Accepted(candidates, call.max_clips, k - 1) \subseteq accepted

\* The second of three candidates was passed over for overlapping the
\* first, and the third was accepted after it.
C16_Witness ==
    /\ Returned("find_clips")
    /\ Len(locals.candidates) = 3
    /\ call.max_clips = 2
    /\ SpansOverlap(locals.candidates[2], locals.candidates[1])
    /\ Len(locals.selected) = 2
    /\ locals.selected[2] = locals.candidates[3]

\* Candidate a was generated before candidate b: smaller start index, then
\* smaller end index.
GeneratedBefore(a, b) ==
    \/ a._seg_range[1] < b._seg_range[1]
    \/ (a._seg_range[1] = b._seg_range[1] /\ a._seg_range[2] < b._seg_range[2])

Touching(a, b) == a.end = b.start \/ b.end = a.start

ZeroLength(a) == a.start = a.end

StrictlyInside(a, b) == b.start < a.start /\ a.end < b.end

\* C18 as stated: spans that exactly touch do not overlap under the test of
\* _remove_overlaps, and a zero-length span overlaps no other span,
\* wherever it lies.
C18_HalfOpen ==
    Returned("find_clips") =>
        \A a \in Indices(locals.candidates), b \in Indices(locals.candidates) :
            LET x == locals.candidates[a]
                y == locals.candidates[b]
            IN  a # b =>
                    /\ Touching(x, y) => ~Overlaps(x, y)
                    /\ ZeroLength(x) => (~Overlaps(x, y) /\ ~Overlaps(y, x))

\* C18: spans that exactly touch do not overlap under the test of
\* _remove_overlaps and are both selected when they rank first and two
\* clips are allowed; a zero-length span overlaps another span exactly
\* when it lies strictly inside it, and not at one of its ends or outside.
C18_TouchingAndInside ==
    Returned("find_clips") =>
        /\ \A a \in Indices(locals.candidates), b \in Indices(locals.candidates) :
                LET x == locals.candidates[a]
                    y == locals.candidates[b]
                IN  a # b =>
                        /\ Touching(x, y) => ~Overlaps(x, y)
                        /\ ZeroLength(x) =>
                                /\ Overlaps(x, y) <=> StrictlyInside(x, y)
                                /\ Overlaps(y, x) <=> StrictlyInside(x, y)
        /\ (/\ Len(locals.candidates) >= 2
            /\ call.max_clips >= 2
            /\ Touching(locals.candidates[1], locals.candidates[2]))
           => (/\ Len(locals.selected) >= 2
               /\ locals.selected[2] = locals.candidates[2])

\* A zero-length candidate lying strictly inside the clip ranked first was
\* dropped as overlapping although another clip was allowed.
C18_Witness ==
    /\ Returned("find_clips")
    /\ call.max_clips = 2
    /\ Len(locals.selected) = 1
    /\ \E b \in Indices(locals.candidates) :
            /\ ZeroLength(locals.candidates[b])
            /\ StrictlyInside(locals.candidates[b], locals.selected[1])
            /\ Overlaps(locals.candidates[b], locals.selected[1])

\* The summed score of the candidates at a set of positions.
RECURSIVE ScoreSum(_, _)
ScoreSum(candidates, positions) ==
    IF positions = {} THEN 0
    ELSE LET k == CHOOSE x \in positions : TRUE
         IN  candidates[k].score + ScoreSum(candidates, positions \ {k})

\* The sets of at most max_clips candidates no two of which overlap.
Feasible(candidates, max_clips) ==
    {S \in SUBSET Indices(candidates) :
        /\ Cardinality(S) <= max_clips
        /\ \A a \in S, b \in S : a # b => ~SpansOverlap(candidates[a], candidates[b])}

SelectedPositions ==
    {Pos(locals.selected[n], locals.candidates) : n \in Indices(locals.selected)}

\* C19: the clips _remove_overlaps selects are one of the non-overlapping
\* sets of at most max_clips candidates, and have the greatest summed score
\* of them when max_clips is 1; for larger max_clips the selection is
\* greedy and another such set can have a strictly greater summed score.
C19_GreedyNotOptimal ==
    Returned("find_clips") =>
        /\ SelectedPositions \in Feasible(locals.candidates, call.max_clips)
        /\ call.max_clips = 1 =>
                \A S \in Feasible(locals.candidates, call.max_clips) :
                    ScoreSum(locals.candidates, S)
                        <= ScoreSum(locals.candidates, SelectedPositions)

\* Another non-overlapping set of at most max_clips candidates has a
\* strictly greater summed score than the clips selected.
C19_Witness ==
    /\ Returned("find_clips")
    /\ call.max_clips = 2
    /\ \E S \in Feasible(locals.candidates, call.max_clips) :
            ScoreSum(locals.candidates, S)
                > ScoreSum(locals.candidates, SelectedPositions)

\* The index pairs (i, j) the generator is to emit a candidate for.
Eligible(segs, min_duration, max_duration) ==
    {p \in Indices(segs) \X Indices(segs) :
        /\ p[1] <= p[2]
        /\ \A k \in p[1]..p[2] : segs[k].end - segs[p[1]].start <= max_duration
        /\ segs[p[2]].end - segs[p[1]].start >= min_duration}

\* The texts of segments i..j in order, a single space between neighbours.
RECURSIVE JoinedText(_, _, _)
JoinedText(segs, i, j) ==
    IF i = j THEN segs[i].text
    ELSE JoinedText(segs, i, j - 1) \o <<" ">> \o segs[j].text

\* C20: the generator emits exactly one candidate for each pair (i, j),
\* i <= j, with segments[k].end - segments[i].start <= max_duration for
\* every k in i..j and segments[j].end - segments[i].start >= min_duration,
\* and no other; the candidate has start segments[i].start, end
\* segments[j].end, the texts of segments i..j joined by single spaces and
\* segment count j - i + 1.
C20_GeneratorExact ==
    Returned("find_clips") =>
        LET generated == locals.generated
            pairs == Eligible(call.segments, call.min_duration, call.max_duration)
        IN  /\ {generated[n]._seg_range : n \in Indices(generated)} = pairs
            /\ Len(generated) = Cardinality(pairs)
            /\ \A n \in Indices(generated) :
                    LET i == generated[n]._seg_range[1]
                        j == generated[n]._seg_range[2]
                    IN  /\ generated[n].start = call.segments[i].start
                        /\ generated[n].end = call.segments[j].end
                        /\ generated[n].text = JoinedText(call.segments, i, j)
                        /\ generated[n].segment_count = j - i + 1

\* A window whose own duration lies within the limits was not emitted,
\* because a shorter window from the same start had exceeded max_duration;
\* another candidate was emitted.
C20_Witness ==
    /\ Returned("find_clips")
    /\ ~InvalidShape(call.segments)
    /\ Len(locals.generated) >= 1
    /\ \E i \in Indices(call.segments), j \in Indices(call.segments) :
            /\ i < j
            /\ call.segments[j].end - call.segments[i].start <= call.max_duration
            /\ call.segments[j].end - call.segments[i].start >= call.min_duration
            /\ \A n \in Indices(locals.generated) :
                    locals.generated[n]._seg_range # <<i, j>>

\* C21: when no segment it is given carries a word, _build_smart_segments
\* returns exactly one sub-range, from the first segment's start to the
\* last segment's end, whatever the gap threshold.
C21_NoWordsFallback ==
    (Returned("_build_smart_segments") /\ Len(locals.all_words) = 0) =>
        ret = <<[start |-> call.segments[1].start,
                 end |-> call.segments[Len(call.segments)].end]>>

\* Two segments without words gave the one sub-range from the start of the
\* first to the end of the second.
C21_Witness ==
    /\ Returned("_build_smart_segments")
    /\ Len(call.segments) = 2
    /\ Len(locals.all_words) = 0
    /\ call.segments[1].start < call.segments[2].start
    /\ call.gap_threshold = 0
    /\ Len(ret) = 1
    /\ ret[1].start = call.segments[1].start
    /\ ret[1].end = call.segments[2].end

\* C22: every candidate carries _seg_range when it is generated and no
\* clip find_clips returns carries it; a returned clip has a sub_segments
\* field exactly when smart_edit was requested.
C22_SegRangeStripped ==
    Returned("find_clips") =>
        /\ \A g \in Indices(locals.generated) :
                "_seg_range" \in DOMAIN locals.generated[g]
        /\ \A n \in Indices(ret) :
                /\ "_seg_range" \notin DOMAIN ret[n]
                /\ ("sub_segments" \in DOMAIN ret[n]) <=> call.smart_edit

\* Clips were returned without smart_edit: they carry neither field.
C22_Witness ==
    /\ Returned("find_clips")
    /\ ~call.smart_edit
    /\ Len(ret) = 2
    /\ \A n \in Indices(ret) :
            DOMAIN ret[n] = {"start", "end", "text", "score", "label",
                             "score_breakdown", "segment_count"}

\* score_engagement went past its guard: the text is not empty and the
\* duration is positive.
Scored == Returned("score_engagement") /\ ~call.text.empty /\ call.duration > 0

\* C23: for non-empty text and duration > 0 the total score_engagement
\* returns is engagement*0.30 + emotion*0.25 + coherence*0.15 +
\* virality*0.20 + durationBonus*0.10 over the clamped dimension scores,
\* capped at 10.0 and rounded to 2 decimals, with
\* durationBonus = max(0, 10 - |duration - 45| / 45 * 10).
C23_TotalFormula ==
    Scored =>
        LET diff == IF call.duration >= 45 THEN call.duration - 45
                    ELSE 45 - call.duration
            shortfall == (diff * 10 * U6) \div 45
            durationBonus == IF shortfall >= 10 * U6 THEN 0 ELSE 10 * U6 - shortfall
            weighted == locals.engagement * 30 + locals.emotion * 25
                        + locals.coherence * 15 + locals.virality * 20
                        + durationBonus * 10
            capped == IF weighted > 10 * U8 THEN 10 * U8 ELSE weighted
        IN  /\ ret.total = 10 * RoundHalfEven(capped, U6)
            /\ \A d \in {"engagement", "emotion", "coherence", "virality"} :
                    0 <= locals[d] /\ locals[d] <= 10 * U6

\* A text with every signal present, of the target duration: all five
\* terms are positive and the emotion term is at its clamp.
C23_Witness ==
    /\ Scored
    /\ call.duration = 45
    /\ locals.engagement > 0
    /\ locals.emotion = 10 * U6
    /\ locals.coherence > 5 * U6
    /\ locals.virality > 0
    /\ locals.duration_bonus = 10 * U6
    /\ ret.total > 7 * MILLI

\* x capped at cap: min(cap, x).
Capped(x, cap) == IF x > cap THEN cap ELSE x

\* The density score of a text of word_count words spoken in duration
\* seconds, in U4: (wps / 3) * 7 capped at 10 from 2.5 words per second
\* on, (wps / 2.5) * 5 below.
DensityScore(word_count, duration) ==
    IF 2 * word_count >= 5 * duration
    THEN Capped((7 * word_count * U4) \div (3 * duration), 10 * U4)
    ELSE (2 * word_count * U4) \div duration

\* The engagement dimension from the five signals, in U6, the hook and
\* call-to-action scores each capped at hook_cap and cta_cap.
EngagementOf(t, duration, hook_cap, cta_cap) ==
    Capped(Capped(t.hook_hits * 2 * U4, hook_cap) * 30
           + Capped((t.question_count * 25 * U4) \div 10, 10 * U4) * 20
           + Capped((t.exclamation_count * 15 * U4) \div 10, 10 * U4) * 15
           + Capped(t.cta_hits * 3 * U4, cta_cap) * 10
           + DensityScore(t.word_count, duration) * 25,
           10 * U6)

\* C24 as stated: the engagement dimension is the clamp of
\* hookHits*2.0*0.30 + questionScore*0.20 + exclamationScore*0.15 +
\* ctaHits*3.0*0.10 + densityScore*0.25, the hook and call-to-action
\* terms not capped before the final clamp.
C24_EngagementUncapped ==
    Scored =>
        locals.engagement
            = EngagementOf(call.text, call.duration,
                           call.text.hook_hits * 2 * U4, call.text.cta_hits * 3 * U4)

\* C24: the engagement dimension is the clamp to [0,10] of
\* min(10, hookHits*2.0)*0.30 + min(10, questionMarks*2.5)*0.20 +
\* min(10, exclamations*1.5)*0.15 + min(10, ctaHits*3.0)*0.10 +
\* densityScore*0.25: the hook and call-to-action scores are capped at 10
\* like the other two.
C24_EngagementCapped ==
    Scored =>
        locals.engagement
            = EngagementOf(call.text, call.duration, 10 * U4, 10 * U4)

\* Hook and call-to-action hits beyond their caps, and a result below the
\* final clamp.
C24_Witness ==
    /\ Scored
    /\ call.text.hook_hits * 2 > 10
    /\ call.text.cta_hits * 3 > 10
    /\ call.text.question_count > 0
    /\ call.text.word_count > 0
    /\ locals.engagement < 10 * U6

\* The virality dimension from the five signals, in U6, the viral and
\* story scores each capped at viral_cap and story_cap.
ViralityOf(t, sentences, viral_cap, story_cap) ==
    LET punchy == Cardinality({i \in Indices(sentences) : sentences[i].words <= 8})
        count == IF Len(sentences) = 0 THEN 1 ELSE Len(sentences)
    IN  Capped(Capped((t.viral_hits * 18 * U4) \div 10, viral_cap) * 35
               + Capped((t.story_hits * 25 * U4) \div 10, story_cap) * 25
               + Capped(t.superlative_count * U4, 5 * U4) * 15
               + ((punchy * 4 * U4) \div count) * 15
               + Capped((t.number_count * 5 * U4) \div 10, 3 * U4) * 10,
               10 * U6)

\* C25 as stated: the virality dimension is the clamp of
\* viralHits*1.8*0.35 + storyHits*2.5*0.25 + min(5.0, superlatives)*0.15
\* + punchyRatio*4.0*0.15 + min(3.0, numbers*0.5)*0.10, the viral-hit and
\* story-hit terms not capped before the final clamp.
C25_ViralityUncapped ==
    Scored =>
        locals.virality
            = ViralityOf(call.text, call.text.blob.sentences,
                         (call.text.viral_hits * 18 * U4) \div 10,
                         (call.text.story_hits * 25 * U4) \div 10)

\* C25: the virality dimension is the clamp to [0,10] of
\* min(10, viralHits*1.8)*0.35 + min(10, storyHits*2.5)*0.25 +
\* min(5.0, superlatives)*0.15 + punchyRatio*4.0*0.15 +
\* min(3.0, numbers*0.5)*0.10: the viral-hit and story-hit scores are
\* capped at 10.
C25_ViralityCapped ==
    Scored =>
        locals.virality
            = ViralityOf(call.text, call.text.blob.sentences, 10 * U4, 10 * U4)

\* Viral and story hits beyond their caps, with punchy and long sentences.
C25_Witness ==
    /\ Scored
    /\ call.text.viral_hits * 18 > 100
    /\ call.text.story_hits * 25 > 100
    /\ call.text.superlative_count > 5
    /\ \E i \in Indices(call.text.blob.sentences) :
            call.text.blob.sentences[i].words > 8
    /\ \E i \in Indices(call.text.blob.sentences) :
            call.text.blob.sentences[i].words <= 8
    /\ locals.virality < 10 * U6

\* C26: when find_clips returns fewer than max_clips clips, every
\* generated candidate that is not returned overlaps a returned clip.
C26_Maximal ==
    (Returned("find_clips") /\ Len(ret) < call.max_clips) =>
        \A g \in Indices(locals.generated) :
            \/ \E n \in Indices(ret) : SameClip(ret[n], locals.generated[g])
                                        /\ InSeq(locals.generated[g], locals.selected)
            \/ \E n \in Indices(ret) : SpansOverlap(locals.generated[g], ret[n])

\* One clip of three candidates was returned with two allowed: each of the
\* other two overlaps it.
C26_Witness ==
    /\ Returned("find_clips")
    /\ call.max_clips = 2
    /\ Len(locals.generated) = 3
    /\ Len(ret) = 1
    /\ \A g \in Indices(locals.generated) :
            InSeq(locals.generated[g], locals.selected)
            \/ SpansOverlap(locals.generated[g], ret[1])

\* The words of segments i..j, in order.
WordsBetween(segs, i, j) == AllWords(SubSeq(segs, i, j))

\* Every word of segments i..j lies within its own segment.
WordsWithinSegments(segs, i, j) ==
    \A k \in i..j : \A w \in Indices(segs[k].words) :
        /\ segs[k].start <= segs[k].words[w].start
        /\ segs[k].words[w].start <= segs[k].words[w].end
        /\ segs[k].words[w].end <= segs[k].end

\* Words in time order: neither starts nor ends go backwards.
TimeOrdered(words) ==
    \A w \in 1..(Len(words) - 1) :
        words[w].start <= words[w + 1].start /\ words[w].end <= words[w + 1].end

\* The sub-ranges cut at the gaps of a word list.
SubRangesOf(words, gap_threshold) ==
    LET gaps == Gaps(words, gap_threshold)
        First(n) == Nth(gaps \cup {1}, n)
        Last(n) == IF n = Cardinality(gaps) + 1 THEN Len(words) ELSE First(n + 1) - 1
    IN  [n \in 1..(Cardinality(gaps) + 1) |->
            [start |-> words[First(n)].start, end |-> words[Last(n)].end]]

\* What C27 says of one returned clip made of segments i..j.
SubSegmentsFit(segs, clip, i, j, gap_threshold) ==
    LET words == WordsBetween(segs, i, j)
    IN  /\ Len(words) = 0 =>
                clip.sub_segments = <<[start |-> clip.start, end |-> clip.end]>>
        /\ Len(words) > 0 => clip.sub_segments = SubRangesOf(words, gap_threshold)
        /\ (WordsWithinSegments(segs, i, j) /\ TimeOrdered(words)) =>
                \A m \in Indices(clip.sub_segments) :
                    /\ clip.start <= clip.sub_segments[m].start
                    /\ clip.sub_segments[m].start <= clip.sub_segments[m].end
                    /\ clip.sub_segments[m].end <= clip.end

\* C27: with smart_edit the sub_segments of a returned clip come
\* from exactly the segments i..j that formed it; if every word lies within
\* its own segment and the words are time-ordered every sub-range lies
\* within the clip's [start, end] with start <= end, and without words the
\* single sub-range is the clip's [start, end].
C27_SubSegmentsWithinClip ==
    (Returned("find_clips") /\ call.smart_edit) =>
        \A n \in Indices(ret) :
            \E m \in Indices(locals.selected) :
                /\ SameClip(ret[n], locals.selected[m])
                /\ SubSegmentsFit(call.segments, ret[n],
                                  locals.selected[m]._seg_range[1],
                                  locals.selected[m]._seg_range[2],
                                  call.gap_threshold)
(* -------- C28: the cutter uses a clip's sub-ranges only when ---------- *)
(* ------------- smart_edit is on and there are two or more ------------- *)

\* The cut made for clip i in format fmt.
CutsFor(i, fmt) ==
    {locals.cuts[n] : n \in {m \in Indices(locals.cuts) :
                                locals.cuts[m].clip = i /\ locals.cuts[m].fmt = fmt}}

\* The sub_segments clip carries (none when it has no such field).
Carried(clip) ==
    IF "sub_segments" \in DOMAIN clip THEN clip.sub_segments ELSE <<>>

Terminal == {"done", "error"}

\* The moves of a status along the pipeline, and into error from a stage.
Forward ==
    {<<"starting", "downloading">>, <<"queued", "downloading">>,
     <<"downloading", "transcribing">>, <<"transcribing", "analyzing">>,
     <<"analyzing", "cutting">>, <<"cutting", "done">>, <<"analyzing", "done">>}
    \cup {<<stage, "error">> :
             stage \in {"starting", "queued", "downloading", "transcribing",
                        "analyzing", "cutting"}}

\* One step moves the status of job j forward or leaves it.
MovesForward(j) ==
    /\ jobs'[j].status # jobs[j].status =>
          <<jobs[j].status, jobs'[j].status>> \in Forward
    /\ (jobs[j].status = "analyzing" /\ jobs'[j].status = "done") =>
          jobs'[j].progress = "No clips found in this video."
    /\ (jobs[j].status # "error" /\ jobs'[j].status = "error") =>
          jobs'[j].error = "raised"
    /\ jobs[j].status \in Terminal => jobs'[j].status = jobs[j].status

\* C29: the status of a job changes only along starting/queued ->
\* downloading -> transcribing -> analyzing -> cutting -> done, from
\* analyzing straight to done when no clips were found, and into error from
\* a stage that raised; a status of done or error never changes again; and
\* every job that exists eventually has the status done or error.
C29_StatusProgress ==
    /\ [][\A j \in DOMAIN jobs : MovesForward(j)]_vars
    /\ \A j \in 1..MaxJobs :
          (j \in DOMAIN jobs) ~> (j \in DOMAIN jobs /\ jobs[j].status \in Terminal)

\* Two jobs have ended and their threads with them: a job started by
\* /process went through every stage to done, a queued one ended in error.
C29_Witness ==
    /\ \A t \in DOMAIN threads : ~Running(t)
    /\ \E a, b \in DOMAIN jobs :
          /\ "batch" \notin DOMAIN jobs[a]
          /\ jobs[a].status = "done" /\ jobs[a].progress = "Done!"
          /\ "batch" \in DOMAIN jobs[b]
          /\ jobs[b].status = "error"

(* -------- C30: the jobs of a batch are processed one at a time -------- *)
(* ----------------------- in submission order -------------------------- *)

\* The batches: the id lists of the threads batch_process started.
Batches == {threads[t].ids : t \in {u \in DOMAIN threads :
                                          "batch" \in DOMAIN jobs[threads[u].ids[1]]}}

Active(j) == jobs[j].status \notin (Terminal \cup {"queued"})

\* In every batch a job that has left queued has all earlier jobs ended,
\* and at most one job is being processed.
OneAtATimeInOrder ==
    \A ids \in Batches :
        /\ \A a, b \in Indices(ids) :
              (a < b /\ jobs[ids[b]].status # "queued") =>
                  jobs[ids[a]].status \in Terminal
        /\ \A a, b \in Indices(ids) :
              (Active(ids[a]) /\ Active(ids[b])) => a = b

\* C30: within a batch a job leaves queued only when every earlier job of
\* the batch is done or in error, at most one job of the batch is neither
\* queued nor ended, and every queued job is eventually taken up, whether
\* or not jobs before it ended in error.
C30_BatchSequential ==
    /\ []OneAtATimeInOrder
    /\ [][\A j \in DOMAIN jobs :
            (jobs[j].status = "queued" /\ jobs'[j].status # "queued") =>
                \A ids \in Batches : \A a, b \in Indices(ids) :
                    (ids[b] = j /\ a < b) => jobs[ids[a]].status \in Terminal]_vars
    /\ \A j \in 1..MaxJobs :
          (j \in DOMAIN jobs /\ jobs[j].status = "queued")
              ~> (j \in DOMAIN jobs /\ jobs[j].status # "queued")

\* The first job of a batch ended in error and the second is being cut.
C30_Witness ==
    \E ids \in Batches :
        /\ Len(ids) > 1
        /\ jobs[ids[1]].status = "error"
        /\ jobs[ids[2]].status = "cutting"

====
